---------------------------- MODULE Spec2Model ----------------------------
(***************************************************************************)
(* db-cloner (src/src/main.rs): the bounded scheduler of main, the         *)
(* per-table worker clone_table, and the schema normalisation of           *)
(* get_table_structure.                                                    *)
(*                                                                         *)
(* Four specifications share the variables:                                *)
(*   Spec      main with the workers stepped statement by statement; the   *)
(*             tables are few (MaxTables < MAX_CONCURRENT), so the         *)
(*             `while task_set.len() >= MAX_CONCURRENT` branch is out of   *)
(*             reach and is left out of Next;                              *)
(*   SpecSched main at full width (SchedTables > MAX_CONCURRENT); a task   *)
(*             of the JoinSet is opaque (the scheduler reads nothing of a  *)
(*             task but its output) and completes in one step;             *)
(*   SpecPool  main at full width, a task stepped through its two          *)
(*             get_conn calls and opaque from there on;                    *)
(*   SpecNorm  the regex replacement of get_table_structure on bounded     *)
(*             statements.                                                 *)
(***************************************************************************)
EXTENDS Naturals, Integers, Sequences, FiniteSets, Bags, TLC

VARIABLES
    source_tables,     \* main: Vec<String> returned by get_tables (SHOW TABLES)
    ignore_tables,     \* main: the IGNORE_TABLES entries
    source_db,         \* the source database: table -> [sql, rows]
    target_db,         \* the target database: table -> [exists, sql, rows]
    pc,                \* position of main
    idx,               \* number of source_tables the for loop has consumed
    total_tables,      \* main: total_tables
    processed_tables,  \* main: processed_tables
    task_set,          \* main: the JoinSet, a bag of task states
    pool_source,       \* connections checked out of pool_source
    pool_target,       \* connections checked out of pool_target
    exit,              \* how the process ended
    spawned,           \* history: the tables given to task_set.spawn, in order
    outcome,           \* history: table -> the stage its worker ended at, the rows
                       \* it had inserted, its result
    progress,          \* history: the (processed, total) pairs upgrade_progress logged
    faults,            \* statements the environment may still reject
    run,               \* number of the current run of the program
    prev_run,          \* history: the target as the current run found it, and
                       \* whether the run before it ended without any failure
    sql,               \* SpecNorm: the statement SHOW CREATE TABLE returned
    normalized         \* SpecNorm: what get_table_structure returned for it

vars == << source_tables, ignore_tables, source_db, target_db, pc, idx,
           total_tables, processed_tables, task_set, pool_source, pool_target,
           exit, spawned, outcome, progress, faults, run, prev_run, sql,
           normalized >>

inputs == << source_tables, ignore_tables, source_db >>
normvars == << sql, normalized >>

-----------------------------------------------------------------------------
(* Program constant and the bounds of the model *)

MAX_CONCURRENT == 15

MaxTables == 3
MaxRows == 2
MaxFaults == 1
MaxRuns == 2
SchedTables == 17
MaxSqlLen == 6

-----------------------------------------------------------------------------
(* Statements: a statement is a sequence of chunks of text *)

AutoInc == "AUTO_INCREMENT="
Digits == {"4", "8"}
Whitespace == {" "}
Chunks == {AutoInc, "x"} \cup Digits \cup Whitespace

\* Number of leading chunks of s that are digits (the greedy \d+).
RECURSIVE DigitRun(_)
DigitRun(s) ==
    IF s # << >> /\ Head(s) \in Digits THEN 1 + DigitRun(Tail(s)) ELSE 0

\* Length of the match of AUTO_INCREMENT=\d+\s at the start of s, 0 if none.
MatchAt(s) ==
    IF s # << >> /\ Head(s) = AutoInc
    THEN LET d == DigitRun(Tail(s))
         IN  IF d >= 1 /\ Len(s) >= d + 2 /\ s[d + 2] \in Whitespace
             THEN d + 2
             ELSE 0
    ELSE 0

\* Mutant: replace for replace_all, only the leftmost match is removed.
RECURSIVE ReplaceFirst(_)
ReplaceFirst(s) ==
    IF s = << >> THEN << >>
    ELSE IF MatchAt(s) > 0
         THEN SubSeq(s, MatchAt(s) + 1, Len(s))
         ELSE << Head(s) >> \o ReplaceFirst(Tail(s))

\* re.replace_all(&sql, ""): the leftmost non-overlapping matches are removed.
RECURSIVE ReplaceAll(_)
ReplaceAll(s) ==
    IF s = << >> THEN << >>
    ELSE IF MatchAt(s) > 0
         THEN ReplaceAll(SubSeq(s, MatchAt(s) + 1, Len(s)))
         ELSE << Head(s) >> \o ReplaceAll(Tail(s))

-----------------------------------------------------------------------------
(* The JoinSet *)

NoTable == 0

\* The state of one clone_table future: its argument, the statement it is at,
\* its locals table_creation_sql and rows, the rows inserted so far; once it
\* has completed the JoinSet keeps its output only.
Task(table, stage) ==
    [table |-> table, stage |-> stage, sql |-> << >>, rows |-> << >>,
     k |-> 0, result |-> "none"]

Finished(result) ==
    [table |-> NoTable, stage |-> "finished", sql |-> << >>, rows |-> << >>,
     k |-> 0, result |-> result]

\* The outputs a task can leave in the JoinSet: Ok(()), Err(e), or the
\* JoinError of a task that panicked.
Returned == {"Ok", "Err"}
Outputs == Returned \cup {"Panic"}
FinishedErr == Finished("Err")

\* A future the model does not look into (SpecSched).
OpaqueTask == Task(NoTable, "clone_table")

TaskLen == BagCardinality(task_set)

Replace(old, new) == (task_set (-) SetToBag({old})) (+) SetToBag({new})

FinishedTasks == {w \in BagToSet(task_set) : w.stage = "finished"}
RunningTasks == {w \in BagToSet(task_set) : w.stage # "finished"}

-----------------------------------------------------------------------------
(* The databases *)

Absent == [exists |-> FALSE, sql |-> << >>, rows |-> << >>]
Stale == [exists |-> TRUE, sql |-> << "x" >>, rows |-> << 99 >>]

Row(t, j) == 10 * t + j
RowsOf(t, n) == [j \in 1 .. n |-> Row(t, j)]

\* What SHOW CREATE TABLE returns for a table: with the counter of the
\* inserts so far (even tables) or without it.
WithCounter == << "x", AutoInc, "4", "8", " ", "x" >>
WithoutCounter == << "x", "x" >>
StatementOf(t) == IF t % 2 = 0 THEN WithCounter ELSE WithoutCounter

\* The source database the runs are checked on: table t holds
\* t % (MaxRows + 1) rows, so the tables differ in size and one of every
\* MaxRows + 1 is empty.
SourceDb ==
    [t \in 1 .. MaxTables |->
        [sql |-> StatementOf(t), rows |-> RowsOf(t, t % (MaxRows + 1))]]

NoOutcome == [stage |-> "none", k |-> 0, result |-> "none"]

-----------------------------------------------------------------------------
(* main *)

\* Mutant: the membership test never matches.
IsIgnoredNever(table) == FALSE

\* lines 28, 32: ignore_tables.contains(table)
IsIgnored(table) == table \in ignore_tables

\* Mutant: the filter keeps the ignored tables.
CountTotalInverted ==
    Cardinality({i \in 1 .. Len(source_tables) : IsIgnored(source_tables[i])})

\* lines 26-29: source_tables.iter().filter(|t| !ignore_tables.contains(t)).count()
CountTotal ==
    Cardinality({i \in 1 .. Len(source_tables) : ~IsIgnored(source_tables[i])})

\* Mutant: > for >=.
AtCapacityOffByOne == BagCardinality(task_set) > MAX_CONCURRENT

\* line 37: while task_set.len() >= MAX_CONCURRENT
AtCapacity == TaskLen >= MAX_CONCURRENT

\* lines 21-29: the source connection, the table list, the counters.
StartOk ==
    /\ pc = "start"
    /\ pc' = "for"
    /\ pool_source' = pool_source + 1
    /\ total_tables' = CountTotal
    /\ processed_tables' = 0
    /\ task_set' = EmptyBag
    /\ UNCHANGED << inputs, target_db, idx, pool_target, exit, spawned,
                    outcome, progress, faults, run, prev_run, normvars >>

\* lines 21-22: get_conn or get_tables fails and `?` returns the error.
StartFail ==
    /\ pc = "start"
    /\ faults > 0
    /\ faults' = faults - 1
    /\ pc' = "done"
    /\ exit' = "Err"
    /\ UNCHANGED << inputs, target_db, idx, total_tables, processed_tables,
                    task_set, pool_source, pool_target, spawned, outcome,
                    progress, run, prev_run, normvars >>

\* lines 22, 136: a row of SHOW TABLES has no column 0, or one that does not
\* decode to a String: the unwrap in get_tables panics main, and conn_source
\* is dropped by the unwinding.
StartPanic ==
    /\ pc = "start"
    /\ faults > 0
    /\ faults' = faults - 1
    /\ pc' = "done"
    /\ exit' = "Panic"
    /\ UNCHANGED << inputs, target_db, idx, total_tables, processed_tables,
                    task_set, pool_source, pool_target, spawned, outcome,
                    progress, run, prev_run, normvars >>

\* lines 32-35: an ignored table is logged and skipped.
ForIgnored ==
    /\ pc = "for"
    /\ idx < Len(source_tables)
    /\ IsIgnored(source_tables[idx + 1])
    /\ idx' = idx + 1
    /\ UNCHANGED << inputs, target_db, pc, total_tables, processed_tables,
                    task_set, pool_source, pool_target, exit, spawned, outcome,
                    progress, faults, run, prev_run, normvars >>

\* lines 163-172: upgrade_progress.
UpgradeProgress ==
    /\ processed_tables' = processed_tables + 1
    /\ progress' = Append(progress, << processed_tables + 1, total_tables >>)

\* Mutant: upgrade_progress is called for an Ok only.
JoinCountsOkOnly(w) ==
    IF w.result = "Panic"
    THEN /\ pc' = "done"
         /\ exit' = "Panic"
         /\ task_set' = EmptyBag
         /\ pool_source' = 0
         /\ pool_target' = 0
         /\ UNCHANGED << processed_tables, progress >>
    ELSE /\ task_set' = task_set (-) SetToBag({w})
         /\ IF w.result = "Ok"
            THEN UpgradeProgress
            ELSE UNCHANGED << processed_tables, progress >>
         /\ UNCHANGED << pc, exit, pool_source, pool_target >>

\* join_next() has returned the output of the completed task w (lines 38-43
\* and 52-56).  A task that panicked comes back as Err(JoinError) and the
\* unwrap panics main: the JoinSet is dropped, which aborts every task left.
Join(w) ==
    IF w.result = "Panic"
    THEN /\ pc' = "done"
         /\ exit' = "Panic"
         /\ task_set' = EmptyBag
         /\ pool_source' = 0
         /\ pool_target' = 0
         /\ UNCHANGED << processed_tables, progress >>
    ELSE /\ task_set' = task_set (-) SetToBag({w})
         /\ UpgradeProgress
         /\ UNCHANGED << pc, exit, pool_source, pool_target >>

\* Mutant: the for loop takes an output whenever one is ready.
ForJoinEager ==
    /\ pc = "for"
    /\ idx < Len(source_tables)
    /\ ~IsIgnored(source_tables[idx + 1])
    /\ \E w \in FinishedTasks : Join(w)
    /\ UNCHANGED << inputs, target_db, idx, total_tables, spawned, outcome,
                    faults, run, prev_run, normvars >>

\* lines 37-44: at capacity, wait for one task and count it.
ForJoin ==
    /\ pc = "for"
    /\ idx < Len(source_tables)
    /\ ~IsIgnored(source_tables[idx + 1])
    /\ AtCapacity
    /\ \E w \in FinishedTasks : Join(w)
    /\ UNCHANGED << inputs, target_db, idx, total_tables, spawned, outcome,
                    faults, run, prev_run, normvars >>

\* Mutant: the future is spawned twice.
SpawnTaskTwice(task) ==
    /\ pc = "for"
    /\ idx < Len(source_tables)
    /\ ~IsIgnored(source_tables[idx + 1])
    /\ ~AtCapacity
    /\ task_set' = (task_set (+) SetToBag({task})) (+) SetToBag({task})
    /\ spawned' = Append(spawned, source_tables[idx + 1])
    /\ idx' = idx + 1
    /\ UNCHANGED << inputs, target_db, pc, total_tables, processed_tables,
                    pool_source, pool_target, exit, outcome, progress, faults,
                    run, prev_run, normvars >>

\* lines 45-49: task_set.spawn(clone_table(table, ...)).
SpawnTask(task) ==
    /\ pc = "for"
    /\ idx < Len(source_tables)
    /\ ~IsIgnored(source_tables[idx + 1])
    /\ ~AtCapacity
    /\ task_set' = task_set (+) SetToBag({task})
    /\ spawned' = Append(spawned, source_tables[idx + 1])
    /\ idx' = idx + 1
    /\ UNCHANGED << inputs, target_db, pc, total_tables, processed_tables,
                    pool_source, pool_target, exit, outcome, progress, faults,
                    run, prev_run, normvars >>

ForSpawn ==
    /\ idx < Len(source_tables)
    /\ SpawnTask(Task(source_tables[idx + 1], "get_conn_source"))

\* line 50: the table list is exhausted.
ForEnd ==
    /\ pc = "for"
    /\ idx = Len(source_tables)
    /\ pc' = "drain"
    /\ UNCHANGED << inputs, target_db, idx, total_tables, processed_tables,
                    task_set, pool_source, pool_target, exit, spawned, outcome,
                    progress, faults, run, prev_run, normvars >>

\* lines 52-57: while let Some(result) = task_set.join_next().await
DrainJoin ==
    /\ pc = "drain"
    /\ \E w \in FinishedTasks : Join(w)
    /\ UNCHANGED << inputs, target_db, idx, total_tables, spawned, outcome,
                    faults, run, prev_run, normvars >>

\* Mutant: the drain loop ends as soon as no completed task is waiting.
DrainEndEarly ==
    /\ pc = "drain"
    /\ \A w \in BagToSet(task_set) : w.stage # "finished"
    /\ pc' = "disconnect"
    /\ pool_source' = pool_source - 1
    /\ UNCHANGED << inputs, target_db, idx, total_tables, processed_tables,
                    task_set, pool_target, exit, spawned, outcome, progress,
                    faults, run, prev_run, normvars >>

\* lines 52, 59: join_next() returns None on the empty set; drop(conn_source).
DrainEnd ==
    /\ pc = "drain"
    /\ task_set = EmptyBag
    /\ pc' = "disconnect"
    /\ pool_source' = pool_source - 1
    /\ UNCHANGED << inputs, target_db, idx, total_tables, processed_tables,
                    task_set, pool_target, exit, spawned, outcome, progress,
                    faults, run, prev_run, normvars >>

\* lines 61-64: both pools disconnect and main returns Ok.
Disconnect ==
    /\ pc = "disconnect"
    /\ pc' = "done"
    /\ exit' = "Ok"
    /\ UNCHANGED << inputs, target_db, idx, total_tables, processed_tables,
                    task_set, pool_source, pool_target, spawned, outcome,
                    progress, faults, run, prev_run, normvars >>

\* lines 61-62: a disconnect fails and `?` returns the error.
DisconnectFail ==
    /\ pc = "disconnect"
    /\ faults > 0
    /\ faults' = faults - 1
    /\ pc' = "done"
    /\ exit' = "Err"
    /\ UNCHANGED << inputs, target_db, idx, total_tables, processed_tables,
                    task_set, pool_source, pool_target, spawned, outcome,
                    progress, run, prev_run, normvars >>

-----------------------------------------------------------------------------
(* clone_table, one action per awaited statement *)

HoldsSource(w) == w.stage # "get_conn_source" /\ w.stage # "finished"
HoldsTarget(w) == HoldsSource(w) /\ w.stage # "get_conn_target"

WorkerFrame ==
    UNCHANGED << inputs, pc, idx, total_tables, processed_tables, exit,
                 spawned, progress, run, prev_run, normvars >>

\* The future moves on to its next statement.
Advance(w, next) ==
    /\ task_set' = Replace(w, next)
    /\ UNCHANGED outcome

\* Mutant: a future that ends before it has its target connection keeps its
\* source connection.
CompleteAtLeaksSource(w, k, result) ==
    /\ task_set' = (task_set (-) SetToBag({w})) (+) SetToBag({Finished(result)})
    /\ outcome' = [outcome EXCEPT ![w.table] =
                      [stage |-> w.stage, k |-> k, result |-> result]]
    /\ pool_source' = IF HoldsTarget(w) THEN pool_source - 1 ELSE pool_source
    /\ pool_target' = IF HoldsTarget(w) THEN pool_target - 1 ELSE pool_target

\* The future completes with `result`: conn_source and conn_target go out of
\* scope (lines 125-126, or the drop of the locals on an early return) and
\* the JoinSet keeps the output.
CompleteAt(w, k, result) ==
    /\ task_set' = Replace(w, Finished(result))
    /\ outcome' = [outcome EXCEPT ![w.table] =
                      [stage |-> w.stage, k |-> k, result |-> result]]
    /\ pool_source' = IF HoldsSource(w) THEN pool_source - 1 ELSE pool_source
    /\ pool_target' = IF HoldsTarget(w) THEN pool_target - 1 ELSE pool_target

Complete(w, result) == CompleteAt(w, w.k, result)

\* Mutant: the future checks two connections out of the source pool.
GetConnSourceTwice(w) ==
    /\ w.stage = "get_conn_source"
    /\ task_set' = (task_set (-) SetToBag({w}))
                        (+) SetToBag({[w EXCEPT !.stage = "get_conn_target"]})
    /\ pool_source' = pool_source + 2
    /\ UNCHANGED << outcome, target_db, pool_target, faults >>

\* line 68: pool_source.get_conn()
GetConnSource(w) ==
    /\ w.stage = "get_conn_source"
    /\ Advance(w, [w EXCEPT !.stage = "get_conn_target"])
    /\ pool_source' = pool_source + 1
    /\ UNCHANGED << target_db, pool_target, faults >>

\* line 69: pool_target.get_conn()
GetConnTarget(w) ==
    /\ w.stage = "get_conn_target"
    /\ Advance(w, [w EXCEPT !.stage = "drop"])
    /\ pool_target' = pool_target + 1
    /\ UNCHANGED << target_db, pool_source, faults >>

\* Mutant: the DROP is not issued.
DropTableNoop(w) ==
    /\ w.stage = "drop"
    /\ task_set' = (task_set (-) SetToBag({w}))
                        (+) SetToBag({[w EXCEPT !.stage = "structure"]})
    /\ UNCHANGED << outcome, target_db, pool_source, pool_target, faults >>

\* lines 72-74: DROP TABLE IF EXISTS `table`
DropTable(w) ==
    /\ w.stage = "drop"
    /\ Advance(w, [w EXCEPT !.stage = "structure"])
    /\ target_db' = [target_db EXCEPT ![w.table] = Absent]
    /\ UNCHANGED << pool_source, pool_target, faults >>

\* lines 76, 142-152: SHOW CREATE TABLE, then the regex replacement.
GetTableStructure(w) ==
    /\ w.stage = "structure"
    /\ Advance(w, [w EXCEPT !.stage = "create",
                            !.sql = ReplaceAll(source_db[w.table].sql)])
    /\ UNCHANGED << target_db, pool_source, pool_target, faults >>

\* lines 147-149: query_first returned no row, or column 1 does not decode
\* to a String: the unwrap panics inside the task.
GetTableStructurePanic(w) ==
    /\ w.stage = "structure"
    /\ faults > 0
    /\ faults' = faults - 1
    /\ Complete(w, "Panic")
    /\ UNCHANGED target_db

\* lines 78-79: the creation statement on the target; the server rejects it
\* when the table is there already.
CreateTable(w) ==
    /\ w.stage = "create"
    /\ IF target_db[w.table].exists
       THEN /\ Complete(w, "Err")
            /\ UNCHANGED target_db
       ELSE /\ Advance(w, [w EXCEPT !.stage = "select"])
            /\ target_db' = [target_db EXCEPT ![w.table] =
                                [exists |-> TRUE, sql |-> w.sql, rows |-> << >>]]
            /\ UNCHANGED << pool_source, pool_target >>
    /\ UNCHANGED faults

\* Mutant: an empty result is reported as an error.
SelectRowsEmptyIsError(w) ==
    /\ w.stage = "select"
    /\ IF source_db[w.table].rows = << >>
       THEN /\ task_set' = (task_set (-) SetToBag({w})) (+) SetToBag({FinishedErr})
            /\ outcome' = [outcome EXCEPT ![w.table] =
                              [stage |-> w.stage, k |-> w.k, result |-> "Err"]]
            /\ pool_source' = pool_source - 1
            /\ pool_target' = pool_target - 1
       ELSE /\ task_set' = (task_set (-) SetToBag({w}))
                               (+) SetToBag({[w EXCEPT !.stage = "insert",
                                                       !.rows = source_db[w.table].rows]})
            /\ UNCHANGED << outcome, pool_source, pool_target >>
    /\ UNCHANGED << target_db, faults >>

\* lines 81-87: SELECT * FROM `table`; an empty result returns Ok at once.
SelectRows(w) ==
    /\ w.stage = "select"
    /\ IF source_db[w.table].rows = << >>
       THEN Complete(w, "Ok")
       ELSE /\ Advance(w, [w EXCEPT !.stage = "insert",
                                    !.rows = source_db[w.table].rows])
            /\ UNCHANGED << pool_source, pool_target >>
    /\ UNCHANGED << target_db, faults >>

\* lines 98-128: the INSERT of the next row; after the last one the
\* connections are dropped and the task returns Ok.
InsertRow(w) ==
    /\ w.stage = "insert"
    /\ IF ~target_db[w.table].exists
       THEN /\ Complete(w, "Err")
            /\ UNCHANGED target_db
       ELSE /\ target_db' = [target_db EXCEPT ![w.table].rows =
                                Append(@, w.rows[w.k + 1])]
            /\ IF w.k + 1 = Len(w.rows)
               THEN CompleteAt(w, w.k + 1, "Ok")
               ELSE /\ Advance(w, [w EXCEPT !.k = w.k + 1])
                    /\ UNCHANGED << pool_source, pool_target >>
    /\ UNCHANGED faults

\* Mutant: the failed statement rolls back the rows inserted so far.
StatementFailsRollback(w) ==
    /\ w.stage # "finished"
    /\ faults > 0
    /\ faults' = faults - 1
    /\ task_set' = (task_set (-) SetToBag({w})) (+) SetToBag({FinishedErr})
    /\ outcome' = [outcome EXCEPT ![w.table] =
                      [stage |-> w.stage, k |-> w.k, result |-> "Err"]]
    /\ pool_source' = IF HoldsSource(w) THEN pool_source - 1 ELSE pool_source
    /\ pool_target' = IF HoldsTarget(w) THEN pool_target - 1 ELSE pool_target
    /\ target_db' = IF w.stage = "insert"
                    THEN [target_db EXCEPT ![w.table].rows = << >>]
                    ELSE target_db

\* Any awaited statement of lines 68-120 fails and `?` returns the error.
StatementFails(w) ==
    /\ w.stage # "finished"
    /\ faults > 0
    /\ faults' = faults - 1
    /\ Complete(w, "Err")
    /\ UNCHANGED target_db

\* One step of one of the futures the runtime is polling.
StepGetConnSource == \E w \in RunningTasks : WorkerFrame /\ GetConnSource(w)
StepGetConnTarget == \E w \in RunningTasks : WorkerFrame /\ GetConnTarget(w)
StepDropTable == \E w \in RunningTasks : WorkerFrame /\ DropTable(w)
StepGetTableStructure == \E w \in RunningTasks : WorkerFrame /\ GetTableStructure(w)
StepGetTableStructurePanic ==
    \E w \in RunningTasks : WorkerFrame /\ GetTableStructurePanic(w)
StepCreateTable == \E w \in RunningTasks : WorkerFrame /\ CreateTable(w)
StepSelectRows == \E w \in RunningTasks : WorkerFrame /\ SelectRows(w)
StepInsertRow == \E w \in RunningTasks : WorkerFrame /\ InsertRow(w)
StepStatementFails == \E w \in RunningTasks : WorkerFrame /\ StatementFails(w)

CloneTable ==
    \/ StepGetConnSource
    \/ StepGetConnTarget
    \/ StepDropTable
    \/ StepGetTableStructure
    \/ StepGetTableStructurePanic
    \/ StepCreateTable
    \/ StepSelectRows
    \/ StepInsertRow
    \/ StepStatementFails

-----------------------------------------------------------------------------
(* The program run again, after a run without any failure, on what that run
   left on the target *)

AllOk ==
    \A t \in DOMAIN outcome : outcome[t].result # "Err" /\ outcome[t].result # "Panic"

Rerun ==
    /\ pc = "done"
    /\ run < MaxRuns
    /\ exit = "Ok"
    /\ AllOk
    /\ run' = run + 1
    /\ prev_run' = [target |-> target_db, clean |-> TRUE]
    /\ pc' = "start"
    /\ idx' = 0
    /\ total_tables' = 0
    /\ processed_tables' = 0
    /\ task_set' = EmptyBag
    /\ pool_source' = 0
    /\ pool_target' = 0
    /\ exit' = "running"
    /\ spawned' = << >>
    /\ outcome' = [t \in DOMAIN outcome |-> NoOutcome]
    /\ progress' = << >>
    /\ UNCHANGED << inputs, target_db, faults, normvars >>

-----------------------------------------------------------------------------
(* Spec: a few tables, the workers in full *)

Names == 1 .. MaxTables

Init ==
    /\ \E n \in 0 .. MaxTables : source_tables = [i \in 1 .. n |-> i]
    /\ ignore_tables \in SUBSET Names
    /\ source_db = SourceDb
    /\ target_db \in {[t \in Names |-> Absent], [t \in Names |-> Stale]}
    /\ pc = "start"
    /\ idx = 0
    /\ total_tables = 0
    /\ processed_tables = 0
    /\ task_set = EmptyBag
    /\ pool_source = 0
    /\ pool_target = 0
    /\ exit = "running"
    /\ spawned = << >>
    /\ outcome = [t \in Names |-> NoOutcome]
    /\ progress = << >>
    /\ faults = MaxFaults
    /\ run = 1
    /\ prev_run = [target |-> target_db, clean |-> FALSE]
    /\ sql = << >>
    /\ normalized = << >>

Next ==
    \/ StartOk
    \/ StartFail
    \/ StartPanic
    \/ ForIgnored
    \/ ForSpawn
    \/ ForEnd
    \/ DrainJoin
    \/ DrainEnd
    \/ Disconnect
    \/ DisconnectFail
    \/ CloneTable
    \/ Rerun

Spec == Init /\ [][Next]_vars

-----------------------------------------------------------------------------
(* SpecSched: more tables than MAX_CONCURRENT, the tasks opaque *)

\* lines 45-49 with the future left opaque.
SchedSpawn ==
    SpawnTask(OpaqueTask)

\* lines 67-129 as the scheduler sees them: the task completes with Ok, with
\* an Err, or by a panic.
SchedComplete ==
    /\ \E w \in RunningTasks : \E result \in Outputs :
           task_set' = Replace(w, Finished(result))
    /\ UNCHANGED << inputs, target_db, pc, idx, total_tables, processed_tables,
                    pool_source, pool_target, exit, spawned, outcome, progress,
                    faults, run, prev_run, normvars >>

InitSched ==
    /\ \E n \in 0 .. SchedTables : source_tables = [i \in 1 .. n |-> i]
    /\ ignore_tables \in SUBSET {2, SchedTables}
    /\ source_db = << >>
    /\ target_db = << >>
    /\ pc = "start"
    /\ idx = 0
    /\ total_tables = 0
    /\ processed_tables = 0
    /\ task_set = EmptyBag
    /\ pool_source = 0
    /\ pool_target = 0
    /\ exit = "running"
    /\ spawned = << >>
    /\ outcome = << >>
    /\ progress = << >>
    /\ faults = MaxFaults
    /\ run = 1
    /\ prev_run = [target |-> target_db, clean |-> FALSE]
    /\ sql = << >>
    /\ normalized = << >>

NextSched ==
    \/ StartOk
    \/ StartFail
    \/ StartPanic
    \/ ForIgnored
    \/ ForJoin
    \/ SchedSpawn
    \/ ForEnd
    \/ DrainJoin
    \/ DrainEnd
    \/ Disconnect
    \/ DisconnectFail
    \/ SchedComplete

SpecSched == InitSched /\ [][NextSched]_vars

-----------------------------------------------------------------------------
(* SpecPool: more tables than MAX_CONCURRENT, the futures stepped through
   their two get_conn calls and opaque from there on *)

\* A future of clone_table that has not been polled yet (line 67).
PoolTask == Task(NoTable, "get_conn_source")

\* lines 45-49.
PoolSpawn ==
    SpawnTask(PoolTask)

\* lines 68-129 as the pools see them: a future ends with an Err at either
\* get_conn or later, and with Ok or by a panic only once it holds both
\* connections; what it holds goes back to the pools.
PoolEnd ==
    /\ \E w \in RunningTasks : \E result \in Outputs :
           /\ result # "Err" => w.stage = "drop"
           /\ task_set' = Replace(w, Finished(result))
           /\ pool_source' = IF HoldsSource(w) THEN pool_source - 1 ELSE pool_source
           /\ pool_target' = IF HoldsTarget(w) THEN pool_target - 1 ELSE pool_target
    /\ UNCHANGED << inputs, target_db, pc, idx, total_tables, processed_tables,
                    exit, spawned, outcome, progress, faults, run, prev_run,
                    normvars >>

InitPool ==
    /\ source_tables = [i \in 1 .. SchedTables |-> i]
    /\ ignore_tables \in SUBSET {2}
    /\ source_db = << >>
    /\ target_db = << >>
    /\ pc = "start"
    /\ idx = 0
    /\ total_tables = 0
    /\ processed_tables = 0
    /\ task_set = EmptyBag
    /\ pool_source = 0
    /\ pool_target = 0
    /\ exit = "running"
    /\ spawned = << >>
    /\ outcome = << >>
    /\ progress = << >>
    /\ faults = 0
    /\ run = 1
    /\ prev_run = [target |-> target_db, clean |-> FALSE]
    /\ sql = << >>
    /\ normalized = << >>

NextPool ==
    \/ StartOk
    \/ ForIgnored
    \/ ForJoin
    \/ PoolSpawn
    \/ ForEnd
    \/ DrainJoin
    \/ DrainEnd
    \/ Disconnect
    \/ StepGetConnSource
    \/ StepGetConnTarget
    \/ PoolEnd

SpecPool == InitPool /\ [][NextPool]_vars

-----------------------------------------------------------------------------
(* SpecNorm: get_table_structure on every statement of at most MaxSqlLen chunks *)

RECURSIVE SeqsUpTo(_)
SeqsUpTo(n) ==
    IF n = 0 THEN {<< >>}
    ELSE LET shorter == SeqsUpTo(n - 1)
         IN  shorter \cup {Append(s, c) : s \in shorter, c \in Chunks}

\* lines 143-151: the statement the server returned, then the replacement.
Capture ==
    /\ pc = "structure"
    /\ pc' = "create"
    /\ normalized' = ReplaceAll(sql)
    /\ UNCHANGED << inputs, target_db, idx, total_tables, processed_tables,
                    task_set, pool_source, pool_target, exit, spawned, outcome,
                    progress, faults, run, prev_run, sql >>

InitNorm ==
    /\ sql \in SeqsUpTo(MaxSqlLen)
    /\ normalized = << >>
    /\ pc = "structure"
    /\ source_tables = << >>
    /\ ignore_tables = {}
    /\ source_db = << >>
    /\ target_db = << >>
    /\ idx = 0
    /\ total_tables = 0
    /\ processed_tables = 0
    /\ task_set = EmptyBag
    /\ pool_source = 0
    /\ pool_target = 0
    /\ exit = "running"
    /\ spawned = << >>
    /\ outcome = << >>
    /\ progress = << >>
    /\ faults = 0
    /\ run = 1
    /\ prev_run = [target |-> target_db, clean |-> FALSE]

NextNorm == Capture

SpecNorm == InitNorm /\ [][NextNorm]_vars

-----------------------------------------------------------------------------
(* Properties *)

\* lines 21, 59: main's conn_source lives from get_conn to drop(conn_source).
MainHoldsSource == IF pc = "for" \/ pc = "drain" THEN 1 ELSE 0

\* The connections the futures in the JoinSet hold (lines 68, 69).
SourceHeldByWorkers ==
    BagCardinality([w \in {x \in BagToSet(task_set) : HoldsSource(x)} |-> task_set[w]])
TargetHeldByWorkers ==
    BagCardinality([w \in {x \in BagToSet(task_set) : HoldsTarget(x)} |-> task_set[w]])

\* The entries of source_tables that are not ignored, in order.
Admitted == SelectSeq(source_tables, LAMBDA t : t \notin ignore_tables)

\* C1: in every reachable state the tasks spawned and not yet taken out of the
\* JoinSet by the scheduler number at most MAX_CONCURRENT.
C1_ConcurrencyCap == BagCardinality(task_set) <= MAX_CONCURRENT

\* C1 witness: MAX_CONCURRENT tasks are in flight, none has completed, and a
\* further table that is not ignored waits to be admitted.
C1_Witness ==
    /\ pc = "for"
    /\ BagCardinality(task_set) = MAX_CONCURRENT
    /\ FinishedTasks = {}
    /\ idx < Len(source_tables)
    /\ source_tables[idx + 1] \notin ignore_tables

\* A step takes one Ok or Err output out of the JoinSet and leaves the other
\* tasks in it.
DrainsOutcome ==
    \E r \in Returned :
        /\ BagIn(Finished(r), task_set)
        /\ task_set' = task_set (-) SetToBag({Finished(r)})

C2_Step ==
    /\ processed_tables' \in {processed_tables, processed_tables + 1}
    /\ processed_tables' = processed_tables + 1 <=> DrainsOutcome
    /\ pc # "start" => total_tables' = total_tables

\* C2: processed starts at 0, changes only by +1 and exactly when the
\* scheduler takes an Ok or an Err out of the JoinSet, never exceeds total,
\* and total is the number of tables not ignored from the first admission on.
C2_ProcessedCounts ==
    /\ [](/\ pc = "start" => processed_tables = 0
          /\ processed_tables <= total_tables
          /\ spawned # << >> => total_tables = Len(Admitted))
    /\ [][C2_Step]_vars

\* C2 witness: outcomes have been counted, the JoinSet is full, and every
\* completed task in it failed, so the next outcome counted is a failure.
C2_Witness ==
    /\ pc = "for"
    /\ processed_tables >= 1
    /\ processed_tables < total_tables
    /\ BagCardinality(task_set) = MAX_CONCURRENT
    /\ FinishedTasks # {}
    /\ \A w \in FinishedTasks : w.result = "Err"

\* C3: no worker is ever spawned for a table of the ignore set, the target's
\* copy of it is as the run found it, and it is not counted in total.
C3_IgnoredNeverAdmitted ==
    /\ \A i \in 1 .. Len(spawned) : spawned[i] \notin ignore_tables
    /\ \A w \in BagToSet(task_set) : w.table \notin ignore_tables
    /\ \A t \in ignore_tables \cap DOMAIN outcome :
           /\ outcome[t] = NoOutcome
           /\ target_db[t] = prev_run.target[t]
    /\ (pc = "for" \/ pc = "drain" \/ pc = "disconnect") =>
           total_tables + Cardinality({i \in 1 .. Len(source_tables) :
                                          source_tables[i] \in ignore_tables})
               = Len(source_tables)

\* C3 witness: a run over ignored and admitted tables has ended.
C3_Witness ==
    /\ pc = "done"
    /\ exit = "Ok"
    /\ spawned # << >>
    /\ \E i \in 1 .. Len(source_tables) :
           /\ source_tables[i] \in ignore_tables
           /\ i < Len(source_tables)
           /\ source_tables[i + 1] \notin ignore_tables
           /\ target_db[source_tables[i]] = Stale

\* C4: a failure of a worker at any stage is an outcome the scheduler
\* receives and never aborts the run: no task ends by a panic and main, once
\* it has spawned a worker, is never panicked.
C4_FailureIsAnOutcome ==
    /\ \A t \in DOMAIN outcome : outcome[t].result # "Panic"
    /\ spawned # << >> => exit # "Panic"

\* What a complete clone of table t leaves on the target.
Cloned(t) ==
    [exists |-> TRUE, sql |-> ReplaceAll(source_db[t].sql), rows |-> source_db[t].rows]

\* The worker of table t ended on a rejected INSERT.
InsertRejected(t) == outcome[t].result = "Err" /\ outcome[t].stage = "insert"

\* C5: once the INSERT of row k of table t is rejected, the target holds the
\* rows 1..k-1 of t and no later one, for the rest of the run, and the outcome
\* of t is a failure; when that rejection is the only statement rejected, no
\* other worker fails, each one that succeeded left its full row set, and the
\* run ends normally with every other admitted table a success.
C5_PartialFailureIsolated ==
    \A t \in DOMAIN outcome :
        InsertRejected(t) =>
            /\ target_db[t].exists
            /\ outcome[t].k < Len(source_db[t].rows)
            /\ target_db[t].rows = SubSeq(source_db[t].rows, 1, outcome[t].k)
            /\ faults = MaxFaults - 1 =>
                   /\ \A u \in DOMAIN outcome \ {t} :
                          /\ outcome[u].result # "Err"
                          /\ outcome[u].result # "Panic"
                          /\ outcome[u].result = "Ok" => target_db[u] = Cloned(u)
                   /\ pc = "done" =>
                          /\ exit = "Ok"
                          /\ \A i \in 1 .. Len(Admitted) :
                                 Admitted[i] # t => outcome[Admitted[i]].result = "Ok"

\* C5 witness: three tables were cloned at once, the second row of one was
\* rejected after its first row was written, the two others succeeded.
C5_Witness ==
    /\ pc = "done"
    /\ Len(spawned) = 3
    /\ \E t \in DOMAIN outcome :
           /\ InsertRejected(t)
           /\ outcome[t].k = 1
           /\ target_db[t].rows = << Row(t, 1) >>
           /\ \A u \in DOMAIN outcome \ {t} : outcome[u].result = "Ok"
           /\ \E u \in DOMAIN outcome \ {t} : target_db[u].rows # << >>

\* C6: when a run has ended, whatever its workers ended with, no task is in
\* flight and every table that is not ignored has been counted.
C6_AllDrainedAtTermination ==
    pc = "done" =>
        /\ task_set = EmptyBag
        /\ processed_tables = total_tables

\* C7: a worker whose table has no rows and whose DROP, schema capture and
\* CREATE went through has left the table recreated and empty on the target;
\* it ends at the row fetch, with Ok unless the fetch itself was rejected,
\* and no INSERT is issued.
C7_EmptyTable ==
    /\ \A w \in RunningTasks :
           source_db[w.table].rows = << >> =>
               /\ w.stage # "insert"
               /\ w.stage = "select" => target_db[w.table] = Cloned(w.table)
    /\ \A t \in DOMAIN outcome :
           source_db[t].rows = << >> /\ outcome[t].stage = "select" =>
               /\ target_db[t] = Cloned(t)
               /\ target_db[t].rows = << >>
               /\ outcome[t].result = "Err" => faults < MaxFaults

\* C7 witness: an empty table that the target held with stale rows has been
\* cloned and its worker returned Ok.
C7_Witness ==
    \E t \in DOMAIN outcome :
        /\ source_db[t].rows = << >>
        /\ prev_run.target[t] = Stale
        /\ outcome[t].stage = "select"
        /\ outcome[t].result = "Ok"
        /\ target_db[t].exists
        /\ target_db[t].sql = ReplaceAll(source_db[t].sql)
        /\ target_db[t].rows = << >>

\* C8: when no statement of either run is rejected, the second run ends like
\* the first, every admitted table a success, and leaves on the target what
\* the first run left: the normalised schema and the rows of the source, no
\* row twice and none left over.
C8_SecondRunSameTarget ==
    run >= 2 /\ pc = "done" /\ faults = MaxFaults =>
        /\ prev_run.clean
        /\ exit = "Ok"
        /\ \A i \in 1 .. Len(Admitted) :
               /\ outcome[Admitted[i]].result = "Ok"
               /\ target_db[Admitted[i]] = Cloned(Admitted[i])
        /\ target_db = prev_run.target

\* C8 witness: the second run has ended on a target the first run filled, one
\* of the tables having MaxRows rows and a counter in its statement.
C8_Witness ==
    /\ run = 2
    /\ pc = "done"
    /\ exit = "Ok"
    /\ faults = MaxFaults
    /\ target_db = prev_run.target
    /\ \E t \in DOMAIN outcome :
           /\ outcome[t].result = "Ok"
           /\ Len(target_db[t].rows) = MaxRows
           /\ source_db[t].sql # target_db[t].sql

\* The places i..j of s that hold AUTO_INCREMENT=, one or more digits, one
\* whitespace character.
IsOccurrence(s, i, j) ==
    /\ i + 2 <= j
    /\ j <= Len(s)
    /\ s[i] = AutoInc
    /\ \A p \in i + 1 .. j - 1 : s[p] \in Digits
    /\ s[j] \in Whitespace

InOccurrence(s, p) ==
    \E i \in 1 .. p : \E j \in p .. Len(s) : IsOccurrence(s, i, j)

RECURSIVE Keep(_, _)
Keep(s, p) ==
    IF p > Len(s) THEN << >>
    ELSE (IF InOccurrence(s, p) THEN << >> ELSE << s[p] >>) \o Keep(s, p + 1)

\* C9: the statement schema capture returns is the server's statement with
\* every occurrence of AUTO_INCREMENT=<digits><whitespace> taken out and every
\* other chunk kept in place.
C9_Normalized ==
    pc = "create" =>
        /\ normalized = Keep(sql, 1)
        /\ (\A p \in 1 .. Len(sql) : ~InOccurrence(sql, p)) => normalized = sql

\* C9 witness: a counter of two digits in the middle of the statement is gone.
C9_Witness ==
    /\ pc = "create"
    /\ sql = << "x", AutoInc, "4", "8", " ", "x" >>
    /\ normalized = << "x", "x" >>

\* Once the tables are enumerated and total is 0, no step panics main.
C10_Step ==
    (pc # "start" /\ total_tables = 0 /\ exit # "Panic") => exit' # "Panic"

\* C10: with total 0 no task is spawned, upgrade_progress is never called,
\* main never waits for a task, and the run, once the enumeration has
\* returned, goes on to its end without a panic.
C10_NothingToDo ==
    /\ []((pc # "start" /\ total_tables = 0) =>
              /\ spawned = << >>
              /\ task_set = EmptyBag
              /\ progress = << >>
              /\ processed_tables = 0
              /\ pc # "done" => exit = "running"
              /\ exit # "running" => (exit = "Ok" \/ faults < MaxFaults)
              /\ pc = "for" => ENABLED (ForIgnored \/ ForEnd)
              /\ pc = "drain" => ENABLED DrainEnd
              /\ pc = "disconnect" => ENABLED Disconnect)
    /\ [][C10_Step]_vars

\* C10 witness: every table of the source is ignored and the run has ended Ok.
C10_Witness ==
    /\ pc = "done"
    /\ exit = "Ok"
    /\ total_tables = 0
    /\ Len(source_tables) >= 2
    /\ idx = Len(source_tables)

\* C11: every failure output the scheduler holds names the table whose
\* worker failed, so the failed tables can be read off the outputs.
C11_FailureNamesTable ==
    \A w \in FinishedTasks :
        w.result = "Err" =>
            /\ w.table \in DOMAIN outcome
            /\ outcome[w.table].result = "Err"

\* C12: a run in which one or more workers ended in a failure does not end
\* with the exit status of success.
C12_FailureExitsNonZero ==
    pc = "done" /\ (\E t \in DOMAIN outcome : outcome[t].result = "Err") =>
        exit # "Ok"

\* C13: the DROP on the target is not issued before the schema has been
\* captured: while a worker is at the schema capture, and after its schema
\* capture failed, the target holds the table as the run found it.
C13_DropAfterCapture ==
    /\ \A w \in RunningTasks :
           w.stage = "structure" => target_db[w.table] = prev_run.target[w.table]
    /\ \A t \in DOMAIN outcome :
           outcome[t].stage = "structure" => target_db[t] = prev_run.target[t]

\* The tables among the first i of source_tables that are not ignored, in order.
AdmittedUpTo(i) ==
    SelectSeq(SubSeq(source_tables, 1, i), LAMBDA t : t \notin ignore_tables)

\* The workers of table t in the JoinSet that have not completed.
WorkersOf(t) == {w \in RunningTasks : w.table = t}

\* C14: the tables spawned so far are the tables the for loop has consumed
\* that are not ignored, in the order of the enumeration; each of them has one
\* worker, in flight or ended with one outcome, whichever worker completes
\* first; and each spawned task is in the JoinSet or counted, once.
C14_AdmittedInOrderOnce ==
    /\ pc # "start" => spawned = AdmittedUpTo(idx)
    /\ \A w \in RunningTasks : CopiesIn(w, task_set) = 1
    /\ \A t \in DOMAIN outcome :
           LET n == Cardinality({i \in 1 .. Len(spawned) : spawned[i] = t})
               workers == Cardinality(WorkersOf(t))
               ended == IF outcome[t] = NoOutcome THEN 0 ELSE 1
           IN  exit # "Panic" =>
                   /\ n <= 1
                   /\ workers + ended = n
    /\ (pc = "for" \/ pc = "drain") =>
           BagCardinality(task_set) + processed_tables = Len(spawned)
    /\ (pc = "disconnect" \/ (pc = "done" /\ exit = "Ok")) =>
           /\ spawned = Admitted
           /\ processed_tables = Len(Admitted)
           /\ \A i \in 1 .. Len(Admitted) : outcome[Admitted[i]] # NoOutcome

\* C14 witness: of three tables the second is ignored, the first and the third
\* were spawned in that order, and the worker of the third has ended while
\* the worker of the first is still in flight.
C14_Witness ==
    /\ Len(source_tables) = 3
    /\ ignore_tables = {source_tables[2]}
    /\ spawned = << source_tables[1], source_tables[3] >>
    /\ outcome[source_tables[3]].result = "Ok"
    /\ WorkersOf(source_tables[1]) # {}

\* C15: the connections checked out of each pool are those of main and of the
\* workers still in flight; a worker that has ended, however it ended, holds
\* none, so once every worker has ended no worker connection is checked out.
C15_ConnectionsReturned ==
    /\ pool_source = MainHoldsSource + SourceHeldByWorkers
    /\ pool_target = TargetHeldByWorkers
    /\ RunningTasks = {} =>
           /\ pool_source = MainHoldsSource
           /\ pool_target = 0

\* C15 witness: three workers have ended, one on a failure to get its target
\* connection, one at the empty-table return, one after its last INSERT, and
\* only main's connection is checked out.
C15_Witness ==
    /\ pc = "drain"
    /\ BagCardinality(task_set) = 3
    /\ RunningTasks = {}
    /\ \E t \in DOMAIN outcome :
           outcome[t].stage = "get_conn_target" /\ outcome[t].result = "Err"
    /\ \E t \in DOMAIN outcome :
           outcome[t].stage = "select" /\ outcome[t].result = "Ok"
    /\ \E t \in DOMAIN outcome :
           outcome[t].stage = "insert" /\ outcome[t].result = "Ok"
    /\ pool_source = 1
    /\ pool_target = 0

\* C16: when main is at the disconnect of the pools, and after it, every
\* spawned worker has ended and its outcome has been drained and counted: the
\* JoinSet is empty and no connection of either pool is checked out.
C16_DisconnectAfterDrain ==
    (pc = "disconnect" \/ (pc = "done" /\ exit # "Panic")) =>
        /\ task_set = EmptyBag
        /\ pool_source = 0
        /\ pool_target = 0
        /\ processed_tables = Len(spawned)
        /\ \A i \in 1 .. Len(spawned) : outcome[spawned[i]] # NoOutcome

\* C16 witness: main is at the disconnect after three workers, one of which
\* failed, were drained.
C16_Witness ==
    /\ pc = "disconnect"
    /\ Len(spawned) = 3
    /\ processed_tables = 3
    /\ \E t \in DOMAIN outcome : outcome[t].result = "Err"
    /\ \E t \in DOMAIN outcome : outcome[t].result = "Ok"

\* C17: once the tables have been enumerated the connection used for it is
\* back in its pool: while workers are admitted and drained, the connections
\* checked out of the source pool are those of the workers in flight.
C17_NoConnectionAcrossRun ==
    (pc = "for" \/ pc = "drain") => pool_source = SourceHeldByWorkers

\* The futures waiting at a get_conn (lines 68, 69).
WaitingForSource == {w \in RunningTasks : w.stage = "get_conn_source"}
WaitingForTarget == {w \in RunningTasks : w.stage = "get_conn_target"}

\* C18: at most MAX_CONCURRENT + 1 connections are checked out of the source
\* pool and at most MAX_CONCURRENT of the target pool; the counts are those of
\* main and of the workers past the respective get_conn, so a worker waiting
\* for its target connection accounts for one source connection and no target
\* connection; and whenever a worker waits for a connection the pool has
\* handed out fewer than that bound, so a pool of that size grants it.
C18_PoolBounds ==
    /\ pool_source <= MAX_CONCURRENT + 1
    /\ pool_target <= MAX_CONCURRENT
    /\ pool_source = MainHoldsSource + SourceHeldByWorkers
    /\ pool_target = TargetHeldByWorkers
    /\ SourceHeldByWorkers - TargetHeldByWorkers =
           BagCardinality([w \in WaitingForTarget |-> task_set[w]])
    /\ WaitingForSource # {} => pool_source < MAX_CONCURRENT + 1
    /\ WaitingForTarget # {} => pool_target < MAX_CONCURRENT

\* C18 witness: MAX_CONCURRENT workers and main hold a source connection each,
\* and one of the workers is waiting for its target connection while the
\* others hold theirs.
C18_Witness ==
    /\ pool_source = MAX_CONCURRENT + 1
    /\ pool_target = MAX_CONCURRENT - 1
    /\ WaitingForTarget # {}
    /\ idx < Len(source_tables)

Min(a, b) == IF a <= b THEN a ELSE b

\* A table that is not ignored is next in the for loop.
NextIsAdmitted ==
    /\ pc = "for"
    /\ idx < Len(source_tables)
    /\ source_tables[idx + 1] \notin ignore_tables

C19_Step ==
    /\ (pc = "for" /\ processed_tables' = processed_tables + 1) =>
           /\ BagCardinality(task_set) = MAX_CONCURRENT
           /\ BagCardinality(task_set') = MAX_CONCURRENT - 1
           /\ pc' = "for"
           /\ idx' = idx
    /\ (processed_tables = 0 /\ processed_tables' = 1) =>
           BagCardinality(task_set) = Min(total_tables, MAX_CONCURRENT)

\* C19: with a table to admit and fewer than MAX_CONCURRENT tasks in the
\* JoinSet the spawn is enabled and the wait is not; an outcome is drained in
\* the admission loop only at MAX_CONCURRENT tasks, one at a time, each drain
\* followed by a spawn; no outcome is drained before MAX_CONCURRENT tasks were
\* spawned or every table was submitted, and at the first drain the JoinSet
\* holds min(total, MAX_CONCURRENT) tasks.
C19_WaitsOnlyAtCapacity ==
    /\ [](/\ (NextIsAdmitted /\ BagCardinality(task_set) < MAX_CONCURRENT) =>
                 /\ ENABLED SchedSpawn
                 /\ ~ENABLED ForJoin
          /\ (NextIsAdmitted /\ BagCardinality(task_set) = MAX_CONCURRENT) =>
                 ~ENABLED SchedSpawn
          /\ (pc = "for" /\ processed_tables > 0) =>
                 BagCardinality(task_set) >= MAX_CONCURRENT - 1
          /\ processed_tables > 0 =>
                 Len(spawned) >= MAX_CONCURRENT \/ spawned = Admitted
          /\ (processed_tables = 0 /\ (pc = "for" \/ pc = "drain")) =>
                 BagCardinality(task_set) = Len(spawned))
    /\ [][C19_Step]_vars

\* C19 witness: the admission loop has drained one outcome at MAX_CONCURRENT
\* tasks and is about to spawn the next table at MAX_CONCURRENT - 1.
C19_Witness ==
    /\ NextIsAdmitted
    /\ processed_tables = 1
    /\ Len(spawned) = MAX_CONCURRENT
    /\ BagCardinality(task_set) = MAX_CONCURRENT - 1

\* C20: normalising the statement schema capture returned gives it back
\* unchanged, and no AUTO_INCREMENT=<digits><whitespace> is left in it.
C20_NormalizeIdempotent ==
    pc = "create" =>
        /\ ReplaceAll(normalized) = normalized
        /\ \A p \in 1 .. Len(normalized) : ~InOccurrence(normalized, p)

=============================================================================
